---- MODULE Spec2Model ----
(***************************************************************************)
(* EventHorizon backend: the event lifecycle handlers of                   *)
(* backend/app/api/endpoints/events.py and rooms.py over the tables of     *)
(* backend/app/models/domain.py.  Every handler is one atomic action: the  *)
(* requests are sequential, each runs in its own database session and      *)
(* either commits its writes or raises and leaves the tables untouched.    *)
(* proposed_activity_ids / excluded_activity_ids are ARRAY columns; the    *)
(* handlers only test membership, append when absent and filter, so they   *)
(* are kept as sets.                                                       *)
(***************************************************************************)
EXTENDS Integers, FiniteSets, TLC

\* ------------------------------------------------------------------ domains

Users == {"u1", "u2"}
Rooms == {"r1"}
Activities == {"a1", "a2"}
EventIds == {1, 2}

\* the ids uuid4() hands out for DateOption rows, in the order handed out
MaxDateOptionId == 11
DateOptionIds == 1..MaxDateOptionId

\* the date option ids used by the lifecycle scenario (Spec) and by the
\* date response scenario (SpecDates)
MaxLifecycleOptions == 1

\* requests are taken while the upvote counter is below this value
MaxRaceUpvotes == 2
MaxRespondedOptions == 2

EventPhase == {"proposal", "voting", "scheduling", "info"}
VoteType == {"for", "against", "abstain"}
DateResponseType == {"yes", "no", "maybe"}

\* the limit of create_date_option
MaxDateOptions == 10

\* absent values
NoActivity == "none"
NoOption == 0
NoEvent == 0
NoValue == "none"

\* the default of get_event's current_user parameter when the handler is
\* called as a plain function: the Depends(get_current_user) marker object
DependsMarker == "Depends"

\* the activity categories of the catalog and the room members whose
\* favorites are analysed
Categories == {"c1", "c2", "c3"}
Members == {"m1", "m2"}

\* the most catalog activities of one category
MaxCatalog == 2

\* scheduled_scripts.py: one job name, configured with allow_overlap: false;
\* the config has no job, the job disabled, or the job enabled in one of two
\* wordings
JobNames == {"job"}
Configs == {"none", "disabled", "enabled", "enabled_edited"}
allow_overlap == [name \in JobNames |-> FALSE]

\* the processes the scheduler can have started at one time, the clock's
\* last minute, and no process
MaxProcesses == 2
Pids == 1..MaxProcesses
MaxNow == 3
NoProcess == 0

\* the database sessions of two requests handled at the same time
Sessions == {"s1", "s2"}

\* no pending write of activity.total_upvotes
NoWrite == -1

VARIABLES
    event,              \* table event: id -> row
    vote,               \* table vote: set of rows
    total_upvotes,      \* activity.total_upvotes
    date_option,        \* table date_option: id -> row
    date_response,      \* table date_response: set of rows
    event_participant,  \* table event_participant: set of rows
    room_member,        \* table room_member: set of rows
    next_option_id,     \* the next fresh DateOption id
    last,               \* the last request and its HTTP status
    inflight,           \* the requests being handled: session -> position and reads
    analysis,           \* the team analysis: catalog, favorites and distribution
    TEAM_ANALYSIS_CACHE, \* ai.py's process-local cache: fingerprint -> result
    ai_response,        \* the outcome of the last team recommendations request
    scheduler           \* scheduled_scripts.py: config file, loop locals, processes, clock

tables == <<event, vote, total_upvotes, date_option, date_response,
            event_participant, room_member, next_option_id>>
vars == <<event, vote, total_upvotes, date_option, date_response,
          event_participant, room_member, next_option_id, last, inflight,
          analysis, TEAM_ANALYSIS_CACHE, ai_response, scheduler>>

\* the state the event and room handlers of one request never touch
outside == <<inflight, analysis, TEAM_ANALYSIS_CACHE, ai_response, scheduler>>

\* the state outside the database, which no transaction touches
offline == <<analysis, TEAM_ANALYSIS_CACHE, ai_response, scheduler>>

\* the rooms exist before the requests modelled here; r1 was created by u1
room == [r \in Rooms |-> [created_by_user_id |-> "u1"]]

\* ------------------------------------------------------------------ helpers

\* a request and its outcome: the handler, the caller, the path and body
\* parameters, the HTTP status, and for a vote the value of the row it found
Request(op, u, e, a, d, v, st) ==
    [op |-> op, user |-> u, event |-> e, activity |-> a, option |-> d,
     value |-> v, before |-> NoValue, status |-> st]

\* the handler raises: the session is discarded with its uncommitted writes
Raise(op, u, e, a, d, v, st) ==
    /\ last' = Request(op, u, e, a, d, v, st)
    /\ UNCHANGED <<tables, outside>>

\* resolve_event_identifier: the row, or not-found
EventExists(e) == e \in DOMAIN event

\* ensure_user_in_room: the room_member rows after the insert-or-ignore
ensure_user_in_room(e, u) ==
    IF room[event[e].room_id].created_by_user_id = u
    THEN room_member
    ELSE room_member \cup {[room_id |-> event[e].room_id, user_id |-> u]}

HasParticipant(rows, e, u) ==
    \E p \in rows : p.event_id = e /\ p.user_id = u

\* ensure_event_participant: the event_participant rows after the
\* insert-or-ignore
ensure_event_participant(e, u) ==
    IF HasParticipant(event_participant, e, u)
    THEN event_participant
    ELSE event_participant \cup
         {[event_id |-> e, user_id |-> u,
           is_organizer |-> (event[e].created_by_user_id = u),
           has_voted |-> FALSE]}

\* the creator checks of the proposal handlers and of delete_date_option
IsCreator(e, u) == event[e].created_by_user_id = u

\* the order of the phases in the lifecycle
PhaseRank(p) ==
    CASE p = "proposal" -> 0
      [] p = "voting" -> 1
      [] p = "scheduling" -> 2
      [] p = "info" -> 3

\* a proposal handler that lost its phase check
InProposalPhase_Always(e) == TRUE

\* the phase checks of the proposal handlers
InProposalPhase(e) == event[e].phase = "proposal"

\* a date handler that lost its phase check
InSchedulingPhase_Always(e) == TRUE

\* the phase checks of create_date_option and respond_to_date
InSchedulingPhase(e) == event[e].phase = "scheduling"

\* require_event_organizer without the is_organizer filter of its query
IsEventOrganizer_AnyParticipant(e, u) ==
    \/ event[e].created_by_user_id = u
    \/ \E p \in event_participant : p.event_id = e /\ p.user_id = u

\* require_event_organizer passes
IsEventOrganizer(e, u) ==
    \/ event[e].created_by_user_id = u
    \/ \E p \in event_participant :
          p.event_id = e /\ p.user_id = u /\ p.is_organizer

\* require_room_member passes
IsRoomMember(r, u) ==
    \/ room[r].created_by_user_id = u
    \/ [room_id |-> r, user_id |-> u] \in room_member

\* require_room_member passes (get_room, get_room_members)
require_room_member(r, u) ==
    \/ room[r].created_by_user_id = u
    \/ \E m \in room_member : m.room_id = r /\ m.user_id = u

\* get_event called by another handler as get_event(event_id, db): its
\* current_user is then the Depends marker, and reading current_user.id in
\* ensure_user_in_room raises before anything is written
get_event_status(current_user) ==
    IF current_user \in Users THEN 200 ELSE 500

\* a session with no request
Idle ==
    [pc |-> "idle", op |-> "none", user |-> "none", event |-> NoEvent,
     activity |-> NoActivity, option |-> NoOption, value |-> NoValue,
     is_priority |-> FALSE, found |-> FALSE, before |-> NoValue,
     upvotes |-> NoWrite, participant |-> FALSE, member |-> FALSE,
     cleared |-> {}]

\* no team analysis requested
NoAnalysis ==
    [catalog |-> [c \in Categories |-> 0],
     favorites |-> [m \in Members |-> [c \in Categories |-> 0]],
     done |-> FALSE,
     normalized_distribution |-> <<>>,
     total_favorites |-> 0]

\* the scheduler loop before its first iteration, with no job configured
NotStarted ==
    [config |-> "none", config_signature |-> "", jobs |-> {}, states |-> <<>>,
     running |-> {}, now |-> 0]

\* no team recommendations request answered yet
NoResponse ==
    [fingerprint |-> <<>>, cache |-> "none", calls |-> 0, external |-> "none",
     result |-> "none", categoryDistribution |-> <<>>]

\* ------------------------------------------------------------------ initial

Init ==
    /\ event = <<>>
    /\ vote = {}
    /\ total_upvotes = [a \in Activities |-> 0]
    /\ date_option = <<>>
    /\ date_response = {}
    /\ event_participant = {}
    /\ room_member = {}
    /\ next_option_id = 1
    /\ last = Request("none", "none", NoEvent, NoActivity, NoOption, NoValue, 200)
    /\ inflight = [s \in Sessions |-> Idle]
    /\ analysis = NoAnalysis
    /\ TEAM_ANALYSIS_CACHE = <<>>
    /\ ai_response = NoResponse
    /\ scheduler = NotStarted

\* ------------------------------------------------------------------ rooms.py

FreshEventId == CHOOSE e \in EventIds \ DOMAIN event :
                    \A f \in EventIds \ DOMAIN event : e <= f

\* create_event: POST /rooms/{room}/events
CreateEvent(u, r, phase_in, proposed, excluded) ==
    /\ EventIds \ DOMAIN event # {}
    /\ IF ~IsRoomMember(r, u)
       THEN Raise("create_event", u, NoEvent, NoActivity, NoOption, phase_in, 403)
       ELSE LET e == FreshEventId
                members == {m.user_id : m \in {x \in room_member : x.room_id = r}}
            IN /\ event' = event @@ (e :>
                      [room_id |-> r,
                       phase |-> phase_in,
                       created_by_user_id |-> u,
                       proposed_activity_ids |-> proposed,
                       excluded_activity_ids |-> excluded,
                       chosen_activity_id |-> NoActivity,
                       final_date_option_id |-> NoOption])
               /\ event_participant' = event_participant \cup
                      {[event_id |-> e, user_id |-> m,
                        is_organizer |-> (m = u), has_voted |-> FALSE] :
                       m \in members \cup {u}}
               /\ last' = Request("create_event", u, e, NoActivity, NoOption, phase_in, 200)
               /\ UNCHANGED <<outside, vote, total_upvotes, date_option, date_response,
                              room_member, next_option_id>>

\* get_room: GET /rooms/{room}; get_room_members has the same check
GetRoom(u, r) ==
    IF ~require_room_member(r, u)
    THEN Raise("get_room", u, NoEvent, NoActivity, NoOption, NoValue, 404)
    ELSE Raise("get_room", u, NoEvent, NoActivity, NoOption, NoValue, 200)

\* get_room_events: GET /rooms/{room}/events; the room is resolved and its
\* events are returned, the caller is not looked at
GetRoomEvents(u, r) ==
    Raise("get_room_events", u, NoEvent, NoActivity, NoOption, NoValue, 200)

\* ------------------------------------------------------------------ ai.py

\* _calculate_normalized_category_distribution(members, activities), on
\* counts: catalog[c] activities of category c, favorites[m][c] favorites of
\* member m in category c.  The scores are kept as exact fractions over one
\* common denominator; the percentages are in tenths of a percent.

RECURSIVE Sum(_, _)
Sum(f, S) ==
    IF S = {} THEN 0
    ELSE LET x == CHOOSE y \in S : TRUE IN f[x] + Sum(f, S \ {x})

RECURSIVE Product(_, _)
Product(f, S) ==
    IF S = {} THEN 1
    ELSE LET x == CHOOSE y \in S : TRUE IN f[x] * Product(f, S \ {x})

\* availability_counts.keys(): the categories with an activity
categories(a) == {c \in Categories : a.catalog[c] > 0}

total_available(a) == Sum(a.catalog, Categories)

\* sum(member_counts.values())
member_total(a, m) == Sum(a.favorites[m], categories(a))

favorites_counts(a) ==
    [c \in Categories |->
        IF c \in categories(a)
        THEN Sum([m \in Members |-> a.favorites[m][c]], Members) ELSE 0]

total_favorites(a) == Sum(favorites_counts(a), Categories)

\* the members with a favorite: contributing_users
contributing(a) == {m \in Members : member_total(a, m) > 0}

\* the common denominator of user_share / availability_share over the
\* contributing members and the categories
ScoreDenominator(a) ==
    Product([m \in Members |-> member_total(a, m)], contributing(a))
    * Product(a.catalog, categories(a))

\* normalized_scores[c], times ScoreDenominator * contributing_users /
\* total_available: the sum over the members of
\* (favorites[m][c] / member_total) / (catalog[c] / total_available)
normalized_scores(a) ==
    [c \in Categories |->
        IF c \in categories(a)
        THEN Sum([m \in Members |->
                     IF m \in contributing(a)
                     THEN a.favorites[m][c]
                          * (ScoreDenominator(a)
                             \div (member_total(a, m) * a.catalog[c]))
                     ELSE 0], Members)
        ELSE 0]

display_categories(a) == {c \in categories(a) : favorites_counts(a)[c] > 0}

score_sum(a) == Sum(normalized_scores(a), display_categories(a))

\* round(.., 1) cutting the digits after the first decimal
Rounded_Truncated(n, d, up) == (1000 * n) \div d

\* round((n / d) * 100, 1) in tenths; on a tie of the second decimal the
\* float quotient decides, either way
Rounded(n, d, up) ==
    LET q == (1000 * n) \div d
        r == (1000 * n) % d
    IN IF 2 * r > d \/ (2 * r = d /\ up) THEN q + 1 ELSE q

\* the normalized_distribution returned: category -> percentage
normalized_distribution(a, up) ==
    IF \/ total_available(a) = 0
       \/ total_favorites(a) = 0
       \/ contributing(a) = {}
       \/ display_categories(a) = {}
       \/ score_sum(a) <= 0
    THEN <<>>
    ELSE [c \in display_categories(a) |->
             Rounded(normalized_scores(a)[c], score_sum(a), up[c])]

\* get_team_recommendations computes the distribution of the room
Normalize(up) ==
    /\ ~analysis.done
    /\ analysis' = [analysis EXCEPT
                       !.done = TRUE,
                       !.normalized_distribution = normalized_distribution(analysis, up),
                       !.total_favorites = total_favorites(analysis)]
    /\ UNCHANGED <<tables, last, inflight, TEAM_ANALYSIS_CACHE, ai_response,
                   scheduler>>

\* the cache key: the room and each member's favorite activities (the stored
\* preferences and hobbies of the members do not change here)
Fingerprint(r, a) == <<r, a.favorites>>

\* ai_service.analyze_team_preferences, called once: the external service
\* answers or the call raises
ExternalOutcomes == {"answers", "raises"}

\* the fallback keeps its empty categoryDistribution
categoryDistribution_NotOverwritten(dist, tf) == <<>>

\* result["categoryDistribution"]: overwritten with the local distribution
\* when there are favorites (an external result has no such key otherwise,
\* which is the empty list here)
categoryDistribution(dist, tf) == IF tf > 0 THEN dist ELSE <<>>

\* get_team_recommendations: GET /ai/rooms/{room}/recommendations
GetTeamRecommendations(u, r, outcome, up) ==
    IF ~IsRoomMember(r, u)
    THEN Raise("get_team_recommendations", u, NoEvent, NoActivity, NoOption, NoValue, 403)
    ELSE LET cache_key == Fingerprint(r, analysis)
             dist == normalized_distribution(analysis, up)
             tf == total_favorites(analysis)
             ok == Request("get_team_recommendations", u, NoEvent, NoActivity,
                           NoOption, NoValue, 200)
         IN IF cache_key \in DOMAIN TEAM_ANALYSIS_CACHE
            THEN LET cached_result ==
                         [TEAM_ANALYSIS_CACHE[cache_key] EXCEPT
                             !.categoryDistribution = IF tf > 0 THEN dist ELSE <<>>]
                 IN /\ TEAM_ANALYSIS_CACHE' =
                          [TEAM_ANALYSIS_CACHE EXCEPT ![cache_key] = cached_result]
                    /\ ai_response' =
                          [fingerprint |-> cache_key, cache |-> "hit", calls |-> 0,
                           external |-> "none",
                           result |-> cached_result.result,
                           categoryDistribution |-> cached_result.categoryDistribution]
                    /\ last' = ok
                    /\ UNCHANGED <<tables, inflight, analysis, scheduler>>
            ELSE IF outcome = "raises" /\ tf = 0
            THEN /\ last' = Request("get_team_recommendations", u, NoEvent,
                                    NoActivity, NoOption, NoValue, 500)
                 /\ ai_response' =
                       [fingerprint |-> cache_key, cache |-> "none", calls |-> 1,
                        external |-> "raised",
                        result |-> "none", categoryDistribution |-> <<>>]
                 /\ UNCHANGED <<tables, inflight, analysis, TEAM_ANALYSIS_CACHE,
                               scheduler>>
            ELSE LET result ==
                         [result |-> IF outcome = "raises" THEN "fallback"
                                     ELSE "external",
                          categoryDistribution |-> categoryDistribution(dist, tf)]
                 IN /\ TEAM_ANALYSIS_CACHE' =
                          TEAM_ANALYSIS_CACHE @@ (cache_key :> result)
                    /\ ai_response' =
                          [fingerprint |-> cache_key, cache |-> "miss", calls |-> 1,
                           external |-> IF outcome = "raises" THEN "raised"
                                        ELSE "answered",
                           result |-> result.result,
                           categoryDistribution |-> result.categoryDistribution]
                    /\ last' = ok
                    /\ UNCHANGED <<tables, inflight, analysis, scheduler>>

\* ------------------------------------------------------------------ activities.py

\* toggle_favorite_activity: POST /activities/{activity}/favorite, by member m
\* on the activity of category c
ToggleFavoriteActivity(m, c) ==
    /\ analysis.catalog[c] > 0
    /\ analysis' = [analysis EXCEPT
                       !.favorites[m][c] = IF @ > 0 THEN @ - 1 ELSE @ + 1]
    /\ UNCHANGED <<tables, last, inflight, TEAM_ANALYSIS_CACHE, ai_response,
                   scheduler>>

\* ------------------------------------------------------------------ scheduled_scripts.py

\* parse_jobs and the filter on enabled: the names of the enabled jobs
parse_jobs(config) ==
    IF config \in {"enabled", "enabled_edited"} THEN JobNames ELSE {}

\* compute_next_run for the schedule of every minute, the time in minutes
compute_next_run(base_time) == base_time + 1

\* state.process.poll() is None: the process still runs
Polls(process, running) == process # NoProcess /\ process \in running

\* build_state_for_jobs(jobs, old_states)
build_state_for_jobs(jobs, old_states, running, now) ==
    [name \in jobs |->
        IF name \in DOMAIN old_states /\ Polls(old_states[name].process, running)
        THEN [old_states[name] EXCEPT !.next_run = compute_next_run(now)]
        ELSE [next_run |-> compute_next_run(now), process |-> NoProcess]]

\* the operator rewrites the config file
EditConfig(c) ==
    /\ c # scheduler.config
    /\ scheduler' = [scheduler EXCEPT !.config = c]
    /\ UNCHANGED <<tables, last, inflight, analysis, TEAM_ANALYSIS_CACHE, ai_response>>

\* a minute passes
Tick ==
    /\ scheduler.now < MaxNow
    /\ scheduler' = [scheduler EXCEPT !.now = @ + 1]
    /\ UNCHANGED <<tables, last, inflight, analysis, TEAM_ANALYSIS_CACHE, ai_response>>

\* a started process exits
ProcessExit(p) ==
    /\ p \in scheduler.running
    /\ scheduler' = [scheduler EXCEPT !.running = @ \ {p}]
    /\ UNCHANGED <<tables, last, inflight, analysis, TEAM_ANALYSIS_CACHE, ai_response>>

\* the pid of the process start_job creates
FreshPid == CHOOSE p \in Pids \ scheduler.running :
               \A q \in Pids \ scheduler.running : p <= q

\* scheduler_loop: one iteration of `while True`, up to its sleep
SchedulerIteration ==
    LET s == scheduler
        reload == s.config # s.config_signature
        jobs == IF reload THEN parse_jobs(s.config) ELSE s.jobs
        built == IF reload
                 THEN build_state_for_jobs(jobs, s.states, s.running, s.now)
                 ELSE s.states
        \* the states of removed jobs are dropped, finished processes forgotten
        reaped == [name \in DOMAIN built \cap jobs |->
                     IF built[name].process # NoProcess
                        /\ ~Polls(built[name].process, s.running)
                     THEN [built[name] EXCEPT !.process = NoProcess]
                     ELSE built[name]]
        known == [name \in jobs |->
                     IF name \in DOMAIN reaped THEN reaped[name]
                     ELSE [next_run |-> compute_next_run(s.now),
                           process |-> NoProcess]]
        due(name) == known[name].next_run <= s.now
        starts(name) ==
            due(name) /\ ~(known[name].process # NoProcess /\ ~allow_overlap[name])
        started == {name \in jobs : starts(name)}
    IN IF jobs = {}
       THEN /\ scheduler' = [s EXCEPT !.config_signature = s.config,
                                      !.jobs = jobs, !.states = built]
            /\ UNCHANGED <<tables, last, inflight, analysis, TEAM_ANALYSIS_CACHE,
                           ai_response>>
       ELSE /\ started # {} => Pids \ s.running # {}
            /\ scheduler' =
                  [s EXCEPT !.config_signature = s.config,
                            !.jobs = jobs,
                            !.states =
                               [name \in jobs |->
                                   IF due(name)
                                   THEN [next_run |-> compute_next_run(s.now),
                                         process |-> IF starts(name) THEN FreshPid
                                                     ELSE known[name].process]
                                   ELSE known[name]],
                            !.running = IF started # {} THEN @ \cup {FreshPid}
                                        ELSE @]
            /\ UNCHANGED <<tables, last, inflight, analysis, TEAM_ANALYSIS_CACHE,
                           ai_response>>

\* ------------------------------------------------------------------ events.py

\* remove_proposed_activity: DELETE /events/{e}/proposed-activities/{a}
RemoveProposedActivity(u, e, a) ==
    IF ~EventExists(e)
    THEN Raise("remove_proposed_activity", u, e, a, NoOption, NoValue, 404)
    ELSE IF ~IsCreator(e, u)
    THEN Raise("remove_proposed_activity", u, e, a, NoOption, NoValue, 403)
    ELSE IF ~InProposalPhase(e)
    THEN Raise("remove_proposed_activity", u, e, a, NoOption, NoValue, 400)
    ELSE /\ last' = Request("remove_proposed_activity", u, e, a, NoOption, NoValue, 200)
         /\ IF a \notin event[e].proposed_activity_ids
            THEN UNCHANGED <<tables, outside>>
            ELSE /\ event' = [event EXCEPT ![e].proposed_activity_ids = @ \ {a}]
                 /\ vote' = {v \in vote : ~(v.event_id = e /\ v.activity_id = a)}
                 /\ UNCHANGED <<outside, total_upvotes, date_option, date_response,
                                event_participant, room_member, next_option_id>>

\* exclude_activity: PATCH /events/{e}/activities/{a}/exclude
ExcludeActivity(u, e, a) ==
    IF ~EventExists(e)
    THEN Raise("exclude_activity", u, e, a, NoOption, NoValue, 404)
    ELSE IF ~IsCreator(e, u)
    THEN Raise("exclude_activity", u, e, a, NoOption, NoValue, 403)
    ELSE IF ~InProposalPhase(e)
    THEN Raise("exclude_activity", u, e, a, NoOption, NoValue, 400)
    ELSE /\ event' = [event EXCEPT ![e].excluded_activity_ids =
                          IF a \notin @ THEN @ \cup {a} ELSE @]
         /\ last' = Request("exclude_activity", u, e, a, NoOption, NoValue, 200)
         /\ UNCHANGED <<outside, vote, total_upvotes, date_option, date_response,
                        event_participant, room_member, next_option_id>>

\* include_activity: PATCH /events/{e}/activities/{a}/include
IncludeActivity(u, e, a) ==
    IF ~EventExists(e)
    THEN Raise("include_activity", u, e, a, NoOption, NoValue, 404)
    ELSE IF ~IsCreator(e, u)
    THEN Raise("include_activity", u, e, a, NoOption, NoValue, 403)
    ELSE IF ~InProposalPhase(e)
    THEN Raise("include_activity", u, e, a, NoOption, NoValue, 400)
    ELSE /\ event' = [event EXCEPT ![e].excluded_activity_ids =
                          IF a \in @ THEN @ \ {a} ELSE @]
         /\ last' = Request("include_activity", u, e, a, NoOption, NoValue, 200)
         /\ UNCHANGED <<outside, vote, total_upvotes, date_option, date_response,
                        event_participant, room_member, next_option_id>>

\* update_event_phase with a transition check: only forward
PhaseUpdated_Forward(e, phase_in) ==
    IF PhaseRank(phase_in) >= PhaseRank(event[e].phase)
    THEN [event EXCEPT ![e].phase = phase_in]
    ELSE event

\* the event table after update_event_phase's assignment
PhaseUpdated(e, phase_in) == [event EXCEPT ![e].phase = phase_in]

\* update_event_phase: PATCH /events/{e}/phase
UpdateEventPhase(u, e, phase_in) ==
    IF ~EventExists(e)
    THEN Raise("update_event_phase", u, e, NoActivity, NoOption, phase_in, 404)
    ELSE IF ~IsEventOrganizer(e, u)
    THEN Raise("update_event_phase", u, e, NoActivity, NoOption, phase_in, 403)
    ELSE /\ event' = PhaseUpdated(e, phase_in)
         /\ last' = Request("update_event_phase", u, e, NoActivity, NoOption, phase_in, 200)
         /\ UNCHANGED <<outside, vote, total_upvotes, date_option, date_response,
                        event_participant, room_member, next_option_id>>

\* the counter update without the look at the user's other events
OtherForVotes_None(u, e, a) == {}

\* the user's "for" votes on the activity in events other than e
OtherForVotes(u, e, a) ==
    {v \in vote : /\ v.user_id = u
                  /\ v.activity_id = a
                  /\ v.vote = "for"
                  /\ v.event_id # e}

\* the vote rows of (event, activity, user)
ExistingVotes(u, e, a) ==
    {v \in vote : v.event_id = e /\ v.activity_id = a /\ v.user_id = u}

\* existing_vote.vote, or none
OldVote(u, e, a) ==
    IF ExistingVotes(u, e, a) = {} THEN NoValue
    ELSE (CHOOSE v \in ExistingVotes(u, e, a) : TRUE).vote

\* vote_on_activity adding a row whether or not one exists
UpsertVote_AlwaysInsert(u, e, a, value) ==
    vote \cup {[event_id |-> e, activity_id |-> a, user_id |-> u, vote |-> value]}

\* the vote table after the upsert of vote_on_activity
UpsertVote(u, e, a, value) ==
    IF ExistingVotes(u, e, a) # {}
    THEN {IF v \in ExistingVotes(u, e, a) THEN [v EXCEPT !.vote = value] ELSE v :
          v \in vote}
    ELSE vote \cup
         {[event_id |-> e, activity_id |-> a, user_id |-> u, vote |-> value]}

\* activity.total_upvotes after vote_on_activity's counter update
UpdatedUpvotes(u, e, a, value) ==
    LET old_is_for == \E v \in ExistingVotes(u, e, a) : v.vote = "for"
        new_is_for == (value = "for")
        other_votes_count == Cardinality(OtherForVotes(u, e, a))
        should_increment == new_is_for /\ other_votes_count = 0
        should_decrement == ~new_is_for /\ other_votes_count = 0
    IN IF old_is_for # new_is_for /\ should_increment
       THEN [total_upvotes EXCEPT ![a] = @ + 1]
       ELSE IF old_is_for # new_is_for /\ should_decrement
       THEN [total_upvotes EXCEPT ![a] = IF @ - 1 > 0 THEN @ - 1 ELSE 0]
       ELSE total_upvotes

\* the event_participant table after vote_on_activity marked the voter
MarkVoted(u, e) ==
    IF HasParticipant(event_participant, e, u)
    THEN {IF p.event_id = e /\ p.user_id = u
          THEN [p EXCEPT !.has_voted = TRUE] ELSE p : p \in event_participant}
    ELSE event_participant \cup
         {[event_id |-> e, user_id |-> u, is_organizer |-> FALSE,
           has_voted |-> TRUE]}

\* vote_on_activity: POST /events/{e}/votes
VoteOnActivity(u, e, a, value) ==
    IF ~EventExists(e)
    THEN Raise("vote_on_activity", u, e, a, NoOption, value, 404)
    ELSE /\ room_member' = ensure_user_in_room(e, u)
         /\ vote' = UpsertVote(u, e, a, value)
         /\ total_upvotes' = UpdatedUpvotes(u, e, a, value)
         /\ event_participant' = MarkVoted(u, e)
         /\ last' = [Request("vote_on_activity", u, e, a, NoOption, value, 200)
                         EXCEPT !.before = OldVote(u, e, a)]
         /\ UNCHANGED <<outside, event, date_option, date_response, next_option_id>>

\* the date options of an event
OptionsOf(e) == {d \in DOMAIN date_option : date_option[d].event_id = e}

\* the count check off by one
AtDateOptionLimit_OffByOne(e) == Cardinality(OptionsOf(e)) > MaxDateOptions

\* the count check of create_date_option
AtDateOptionLimit(e) == Cardinality(OptionsOf(e)) >= MaxDateOptions

\* the time fields a DateOptionCreate body carries
TimePair(has_start, has_end) ==
    IF has_start THEN (IF has_end THEN "start_end" ELSE "start")
    ELSE (IF has_end THEN "end" ELSE "none")

\* create_date_option: POST /events/{e}/date-options
\* has_start / has_end: whether the request carries start_time / end_time
CreateDateOption(u, e, has_start, has_end) ==
    IF ~EventExists(e)
    THEN Raise("create_date_option", u, e, NoActivity, NoOption,
               TimePair(has_start, has_end), 404)
    ELSE IF ~InSchedulingPhase(e)
    THEN Raise("create_date_option", u, e, NoActivity, NoOption,
               TimePair(has_start, has_end), 400)
    ELSE IF AtDateOptionLimit(e)
    THEN Raise("create_date_option", u, e, NoActivity, NoOption,
               TimePair(has_start, has_end), 400)
    ELSE IF has_end /\ ~has_start
    THEN Raise("create_date_option", u, e, NoActivity, NoOption,
               TimePair(has_start, has_end), 400)
    ELSE /\ next_option_id \in DateOptionIds
         /\ date_option' = date_option @@ (next_option_id :> [event_id |-> e])
         /\ next_option_id' = next_option_id + 1
         /\ room_member' = ensure_user_in_room(e, u)
         /\ last' = Request("create_date_option", u, e, NoActivity,
                            next_option_id, TimePair(has_start, has_end), 200)
         /\ UNCHANGED <<outside, event, vote, total_upvotes, date_response,
                        event_participant>>

\* delete_date_option: DELETE /events/{e}/date-options/{d}
\* the deletes are committed, then the response is built by get_event(id, db)
DeleteDateOption(u, e, d) ==
    IF ~EventExists(e)
    THEN Raise("delete_date_option", u, e, NoActivity, d, NoValue, 404)
    ELSE IF ~IsCreator(e, u)
    THEN Raise("delete_date_option", u, e, NoActivity, d, NoValue, 403)
    ELSE /\ date_response' = {r \in date_response : r.date_option_id # d}
         /\ date_option' = [x \in DOMAIN date_option \ (OptionsOf(e) \cap {d}) |->
                               date_option[x]]
         /\ last' = Request("delete_date_option", u, e, NoActivity, d, NoValue,
                            get_event_status(DependsMarker))
         /\ UNCHANGED <<outside, event, vote, total_upvotes, event_participant,
                        room_member, next_option_id>>

\* the date_response table after respond_to_date cleared the user's
\* priorities on the date options of event e
ClearPriorities(u, e, is_priority) ==
    IF is_priority /\ OptionsOf(e) # {}
    THEN {IF r.user_id = u /\ r.date_option_id \in OptionsOf(e)
          THEN [r EXCEPT !.is_priority = FALSE] ELSE r : r \in date_response}
    ELSE date_response

\* the date_response table after the upsert of respond_to_date on `rows`
UpsertResponse(rows, u, d, response, is_priority) ==
    IF \E r \in rows : r.date_option_id = d /\ r.user_id = u
    THEN {IF r.date_option_id = d /\ r.user_id = u
          THEN [r EXCEPT !.response = response, !.is_priority = is_priority]
          ELSE r : r \in rows}
    ELSE rows \cup {[date_option_id |-> d, user_id |-> u,
                     response |-> response, is_priority |-> is_priority]}

\* respond_to_date: POST /events/{e}/date-options/{d}/response
RespondToDate(u, e, d, response, is_priority) ==
    IF ~EventExists(e)
    THEN Raise("respond_to_date", u, e, NoActivity, d, response, 404)
    ELSE IF ~InSchedulingPhase(e)
    THEN Raise("respond_to_date", u, e, NoActivity, d, response, 400)
    ELSE IF /\ d \notin DOMAIN date_option
            /\ ~\E r \in date_response : r.date_option_id = d /\ r.user_id = u
    \* the new row violates the foreign key to date_option at commit
    THEN Raise("respond_to_date", u, e, NoActivity, d, response, 500)
    ELSE /\ date_response' = UpsertResponse(ClearPriorities(u, e, is_priority),
                                            u, d, response, is_priority)
         /\ room_member' = ensure_user_in_room(e, u)
         /\ last' = Request("respond_to_date", u, e, NoActivity, d, response, 200)
         /\ UNCHANGED <<outside, event, vote, total_upvotes, date_option,
                        event_participant, next_option_id>>

\* select_activity that forgets the phase
ActivitySelected_KeepPhase(e, a) ==
    [event EXCEPT ![e].chosen_activity_id = a]

\* the event table after select_activity's assignments
ActivitySelected(e, a) ==
    [event EXCEPT ![e].chosen_activity_id = a, ![e].phase = "scheduling"]

\* select_activity: POST /events/{e}/select-activity
\* the update is committed, then the response is built by get_event(id, db)
SelectActivity(u, e, a) ==
    IF ~EventExists(e)
    THEN Raise("select_activity", u, e, a, NoOption, NoValue, 404)
    ELSE IF ~IsEventOrganizer(e, u)
    THEN Raise("select_activity", u, e, a, NoOption, NoValue, 403)
    ELSE /\ event' = ActivitySelected(e, a)
         /\ room_member' = ensure_user_in_room(e, u)
         /\ last' = Request("select_activity", u, e, a, NoOption, NoValue,
                            get_event_status(DependsMarker))
         /\ UNCHANGED <<outside, vote, total_upvotes, date_option, date_response,
                        event_participant, next_option_id>>

\* the event table after finalize_date's assignments
DateFinalized(e, d) ==
    [event EXCEPT ![e].final_date_option_id = d, ![e].phase = "info"]

\* finalize_date: POST /events/{e}/finalize-date
\* the update is committed, then the response is built by get_event(id, db)
FinalizeDate(u, e, d) ==
    IF ~EventExists(e)
    THEN Raise("finalize_date", u, e, NoActivity, d, NoValue, 404)
    ELSE IF ~IsEventOrganizer(e, u)
    THEN Raise("finalize_date", u, e, NoActivity, d, NoValue, 403)
    ELSE /\ event' = DateFinalized(e, d)
         /\ room_member' = ensure_user_in_room(e, u)
         /\ last' = Request("finalize_date", u, e, NoActivity, d, NoValue,
                            get_event_status(DependsMarker))
         /\ UNCHANGED <<outside, vote, total_upvotes, date_option, date_response,
                        event_participant, next_option_id>>

\* get_event: GET /events/{e}
GetEvent(u, e) ==
    IF ~EventExists(e)
    THEN Raise("get_event", u, e, NoActivity, NoOption, NoValue, 404)
    ELSE /\ room_member' = ensure_user_in_room(e, u)
         /\ event_participant' = ensure_event_participant(e, u)
         /\ last' = Request("get_event", u, e, NoActivity, NoOption, NoValue,
                            get_event_status(u))
         /\ UNCHANGED <<outside, event, vote, total_upvotes, date_option, date_response,
                        next_option_id>>

\* ------------------------------------------------------------------ concurrent requests
\* Two requests are handled at the same time, each in its own session on a
\* read-committed database.  A handler is split where another request can
\* run in between: its statements up to the last SELECT (Begin) and its
\* commit (Commit).  A SELECT reads the committed tables; the rows a session
\* adds or changes reach the tables at its commit; a plain INSERT of a key
\* that is committed by then raises IntegrityError and the request answers
\* 500 with nothing written; INSERT .. ON CONFLICT DO NOTHING never raises.

\* session s handles a request that is not committed yet
InFlight(s) == inflight[s].pc = "commit"

\* ensure_user_in_room's INSERT waits while another session holds an
\* uncommitted insert of the same room_member key
MemberInsertBlocked(s, e, u) ==
    \E t \in Sessions \ {s} :
       /\ InFlight(t)
       /\ inflight[t].member
       /\ inflight[t].user = u
       /\ ensure_user_in_room(e, u) # room_member

\* the room_member table after session s committed ensure_user_in_room's row
CommittedMember(s) ==
    IF inflight[s].member
    THEN room_member \cup {[room_id |-> event[inflight[s].event].room_id,
                            user_id |-> inflight[s].user]}
    ELSE room_member

\* the request of session s ends with the given status
Completed(s, st) ==
    [Request(inflight[s].op, inflight[s].user, inflight[s].event,
             inflight[s].activity, inflight[s].option, inflight[s].value, st)
        EXCEPT !.before = inflight[s].before]

\* vote_on_activity up to its last SELECT: ensure_user_in_room, the select of
\* the existing vote, the counter update on the loaded Activity, the select of
\* the participant
VoteBegin(s, u, e, a, value) ==
    /\ ~InFlight(s)
    /\ EventExists(e)
    /\ ~MemberInsertBlocked(s, e, u)
    /\ inflight' = [inflight EXCEPT ![s] =
          [Idle EXCEPT !.pc = "commit", !.op = "vote_on_activity",
                       !.user = u, !.event = e, !.activity = a, !.value = value,
                       !.found = (ExistingVotes(u, e, a) # {}),
                       !.before = OldVote(u, e, a),
                       !.upvotes = IF UpdatedUpvotes(u, e, a, value) = total_upvotes
                                   THEN NoWrite
                                   ELSE UpdatedUpvotes(u, e, a, value)[a],
                       !.participant = HasParticipant(event_participant, e, u),
                       !.member = (ensure_user_in_room(e, u) # room_member)]]
    /\ UNCHANGED <<tables, last, offline>>

\* vote_on_activity's commit: the vote row, the counter, the participant row
VoteCommit(s) ==
    /\ InFlight(s)
    /\ inflight[s].op = "vote_on_activity"
    /\ LET q == inflight[s]
           vote_taken == ~q.found /\ ExistingVotes(q.user, q.event, q.activity) # {}
           participant_taken ==
               ~q.participant /\ HasParticipant(event_participant, q.event, q.user)
       IN IF vote_taken \/ participant_taken
          THEN /\ last' = Completed(s, 500)
               /\ UNCHANGED tables
          ELSE /\ vote' = UpsertVote(q.user, q.event, q.activity, q.value)
               /\ total_upvotes' = IF q.upvotes = NoWrite THEN total_upvotes
                                   ELSE [total_upvotes EXCEPT ![q.activity] = q.upvotes]
               /\ event_participant' = MarkVoted(q.user, q.event)
               /\ room_member' = CommittedMember(s)
               /\ last' = Completed(s, 200)
               /\ UNCHANGED <<event, date_option, date_response, next_option_id>>
    /\ inflight' = [inflight EXCEPT ![s] = Idle]
    /\ UNCHANGED offline

\* create_date_option up to its count of the event's date options:
\* ensure_user_in_room, the phase check, the count check, the time check
CreateDateOptionBegin(s, u, e, has_start, has_end) ==
    /\ ~InFlight(s)
    /\ IF ~EventExists(e)
       THEN Raise("create_date_option", u, e, NoActivity, NoOption,
                  TimePair(has_start, has_end), 404)
       ELSE /\ ~MemberInsertBlocked(s, e, u)
            /\ IF \/ ~InSchedulingPhase(e)
                  \/ AtDateOptionLimit(e)
                  \/ (has_end /\ ~has_start)
               THEN Raise("create_date_option", u, e, NoActivity, NoOption,
                          TimePair(has_start, has_end), 400)
               ELSE /\ inflight' = [inflight EXCEPT ![s] =
                          [Idle EXCEPT !.pc = "commit", !.op = "create_date_option",
                                       !.user = u, !.event = e,
                                       !.value = TimePair(has_start, has_end),
                                       !.member = (ensure_user_in_room(e, u)
                                                     # room_member)]]
                    /\ UNCHANGED <<tables, last, offline>>

\* create_date_option's commit: the new DateOption row
CreateDateOptionCommit(s) ==
    /\ InFlight(s)
    /\ inflight[s].op = "create_date_option"
    /\ next_option_id \in DateOptionIds
    /\ date_option' = date_option @@
                         (next_option_id :> [event_id |-> inflight[s].event])
    /\ next_option_id' = next_option_id + 1
    /\ room_member' = CommittedMember(s)
    /\ last' = [Completed(s, 200) EXCEPT !.option = next_option_id]
    /\ inflight' = [inflight EXCEPT ![s] = Idle]
    /\ UNCHANGED <<offline, event, vote, total_upvotes, date_response,
                   event_participant>>

\* join_room up to the select of the existing member: POST /rooms/join
JoinBegin(s, u, r) ==
    /\ ~InFlight(s)
    /\ IF IsRoomMember(r, u)
       THEN /\ last' = Request("join_room", u, NoEvent, NoActivity, NoOption, NoValue, 200)
            /\ UNCHANGED inflight
       ELSE /\ inflight' = [inflight EXCEPT ![s] =
                  [Idle EXCEPT !.pc = "commit", !.op = "join_room", !.user = u]]
            /\ UNCHANGED last
    /\ UNCHANGED <<tables, offline>>

\* join_room's commit of the new RoomMember row; the INSERT waits for another
\* session's uncommitted row of the same key
JoinCommit(s, r) ==
    /\ InFlight(s)
    /\ inflight[s].op = "join_room"
    /\ ~\E t \in Sessions \ {s} :
          InFlight(t) /\ inflight[t].member /\ inflight[t].user = inflight[s].user
    /\ IF [room_id |-> r, user_id |-> inflight[s].user] \in room_member
       THEN /\ last' = Completed(s, 500)
            /\ UNCHANGED tables
       ELSE /\ room_member' = room_member \cup
                                 {[room_id |-> r, user_id |-> inflight[s].user]}
            /\ last' = Completed(s, 200)
            /\ UNCHANGED <<event, vote, total_upvotes, date_option, date_response,
                           event_participant, next_option_id>>
    /\ inflight' = [inflight EXCEPT ![s] = Idle]
    /\ UNCHANGED offline

\* get_event next to the requests in flight: its inserts are ON CONFLICT DO
\* NOTHING and are committed at once
GetEventMeanwhile(u, e) ==
    /\ EventExists(e)
    /\ ~\E t \in Sessions : /\ InFlight(t)
                            /\ inflight[t].member
                            /\ inflight[t].user = u
    /\ GetEvent(u, e)

\* the keys of the user's responses on the date options of event e: the rows
\* the priority-clearing UPDATE of respond_to_date matches
PriorityRows(u, e) ==
    {r.date_option_id : r \in {x \in date_response :
                                  x.user_id = u /\ x.date_option_id \in OptionsOf(e)}}

\* a row of the user is locked by the uncommitted UPDATE of another session
ResponseLocked(s, u, ds) ==
    \E t \in Sessions \ {s} :
       /\ InFlight(t)
       /\ inflight[t].op = "respond_to_date"
       /\ inflight[t].user = u
       /\ inflight[t].cleared \cap ds # {}

\* respond_to_date up to the select of the existing response, on an event in
\* scheduling and one of its date options
RespondBegin(s, u, e, d, response, is_priority) ==
    /\ ~InFlight(s)
    /\ EventExists(e)
    /\ InSchedulingPhase(e)
    /\ d \in OptionsOf(e)
    /\ ~MemberInsertBlocked(s, e, u)
    /\ ~(is_priority /\ ResponseLocked(s, u, PriorityRows(u, e)))
    /\ inflight' = [inflight EXCEPT ![s] =
          [Idle EXCEPT !.pc = "commit", !.op = "respond_to_date",
                       !.user = u, !.event = e, !.option = d, !.value = response,
                       !.is_priority = is_priority,
                       !.cleared = IF is_priority THEN PriorityRows(u, e) ELSE {},
                       !.found = (\E r \in date_response :
                                     r.date_option_id = d /\ r.user_id = u),
                       !.member = (ensure_user_in_room(e, u) # room_member)]]
    /\ UNCHANGED <<tables, last, offline>>

\* respond_to_date's commit: the cleared priorities and the response row
RespondCommit(s) ==
    /\ InFlight(s)
    /\ inflight[s].op = "respond_to_date"
    /\ ~ResponseLocked(s, inflight[s].user, {inflight[s].option})
    /\ LET q == inflight[s]
           cleared_rows ==
               {IF r.user_id = q.user /\ r.date_option_id \in q.cleared
                THEN [r EXCEPT !.is_priority = FALSE] ELSE r : r \in date_response}
       IN IF ~q.found /\ \E r \in date_response :
                             r.date_option_id = q.option /\ r.user_id = q.user
          THEN /\ last' = Completed(s, 500)
               /\ UNCHANGED tables
          ELSE /\ date_response' = UpsertResponse(cleared_rows, q.user, q.option,
                                                  q.value, q.is_priority)
               /\ room_member' = CommittedMember(s)
               /\ last' = Completed(s, 200)
               /\ UNCHANGED <<event, vote, total_upvotes, date_option,
                              event_participant, next_option_id>>
    /\ inflight' = [inflight EXCEPT ![s] = Idle]
    /\ UNCHANGED offline

\* ------------------------------------------------------------------ specifications

\* The event lifecycle of one event: every handler, on the first activity and
\* the first date option.
Next ==
    \/ \E u \in Users, r \in Rooms :
          /\ DOMAIN event = {}
          /\ CreateEvent(u, r, "proposal", {"a1"}, {})
    \/ \E u \in Users, e \in {1} : GetEvent(u, e)
    \/ \E u \in Users, e \in {1}, a \in {"a1"} : RemoveProposedActivity(u, e, a)
    \/ \E u \in Users, e \in {1}, a \in {"a1"} : ExcludeActivity(u, e, a)
    \/ \E u \in Users, e \in {1}, a \in {"a1"} : IncludeActivity(u, e, a)
    \/ \E u \in Users, e \in {1}, p \in EventPhase : UpdateEventPhase(u, e, p)
    \/ \E u \in Users, e \in {1}, a \in {"a1"}, v \in {"for"} :
          VoteOnActivity(u, e, a, v)
    \/ \E u \in Users, e \in {1}, hs \in BOOLEAN, he \in BOOLEAN :
          /\ next_option_id <= MaxLifecycleOptions
          /\ CreateDateOption(u, e, hs, he)
    \/ \E u \in Users, e \in {1}, d \in 1..MaxLifecycleOptions :
          DeleteDateOption(u, e, d)
    \/ \E e \in {1}, d \in 1..MaxLifecycleOptions, pri \in BOOLEAN :
          RespondToDate("u2", e, d, "yes", pri)
    \/ \E u \in Users, e \in {1}, a \in {"a1"} : SelectActivity(u, e, a)
    \/ \E u \in Users, e \in {1}, d \in 1..MaxLifecycleOptions : FinalizeDate(u, e, d)

Spec == Init /\ [][Next]_vars

\* Votes on one activity across two events: the upvote counter.
NextVotes ==
    \/ \E u \in Users, r \in Rooms : CreateEvent(u, r, "proposal", {"a1"}, {})
    \/ \E u \in Users, e \in EventIds, v \in VoteType :
          VoteOnActivity(u, e, "a1", v)
    \/ \E u \in Users, e \in EventIds : RemoveProposedActivity(u, e, "a1")

SpecVotes == Init /\ [][NextVotes]_vars

\* Date options and date responses across two events.
NextDates ==
    \/ \E u \in Users, r \in Rooms : CreateEvent(u, r, "proposal", {}, {})
    \/ \E u \in Users, e \in EventIds, p \in {"voting", "scheduling"} :
          UpdateEventPhase(u, e, p)
    \/ \E u \in Users, e \in EventIds :
          /\ next_option_id <= MaxRespondedOptions
          /\ CreateDateOption(u, e, TRUE, TRUE)
    \/ \E u \in Users, e \in EventIds, d \in 1..MaxRespondedOptions :
          DeleteDateOption(u, e, d)
    \/ \E e \in EventIds, d \in 1..MaxRespondedOptions,
          rs \in {"yes", "no"}, pri \in BOOLEAN :
          RespondToDate("u2", e, d, rs, pri)

SpecDates == Init /\ [][NextDates]_vars

\* The date option limit of one event.
NextLimit ==
    \/ \E r \in Rooms :
          /\ DOMAIN event = {}
          /\ CreateEvent("u1", r, "proposal", {"a1"}, {})
    \/ SelectActivity("u1", 1, "a1")
    \/ \E hs \in BOOLEAN, he \in BOOLEAN : CreateDateOption("u1", 1, hs, he)
    \/ \E d \in DateOptionIds : DeleteDateOption("u1", 1, d)

SpecLimit == Init /\ [][NextLimit]_vars

\* Event creation with the fields of the request body, and the room reads.
NextCreate ==
    \/ \E u \in Users, r \in Rooms, p \in EventPhase,
          pr \in SUBSET {"a1"}, ex \in SUBSET {"a1"} :
          CreateEvent(u, r, p, pr, ex)
    \/ \E u \in Users, e \in EventIds : GetEvent(u, e)
    \/ \E u \in Users, r \in Rooms : GetRoom(u, r)
    \/ \E u \in Users, r \in Rooms : GetRoomEvents(u, r)
    \/ \E u \in Users, r \in Rooms, outcome \in ExternalOutcomes :
          GetTeamRecommendations(u, r, outcome, [c \in Categories |-> FALSE])

SpecCreate == Init /\ [][NextCreate]_vars

\* Votes, views and joins of one user on one event handled two at a time.
NextRaceVotes ==
    \/ \E r \in Rooms :
          /\ DOMAIN event = {}
          /\ CreateEvent("u1", r, "proposal", {"a1"}, {})
    \/ \E s \in Sessions, r \in Rooms : JoinBegin(s, "u2", r)
    \/ \E s \in Sessions, r \in Rooms : JoinCommit(s, r)
    \/ GetEventMeanwhile("u2", 1)
    \/ \E s \in Sessions, v \in {"for", "against"} :
          /\ total_upvotes["a1"] < MaxRaceUpvotes
          /\ VoteBegin(s, "u2", 1, "a1", v)
    \/ \E s \in Sessions : VoteCommit(s)

SpecRaceVotes == Init /\ [][NextRaceVotes]_vars

\* Date responses on the date options of one event handled two at a time.
NextRaceDates ==
    \/ \E r \in Rooms :
          /\ DOMAIN event = {}
          /\ CreateEvent("u1", r, "proposal", {}, {})
    \/ UpdateEventPhase("u1", 1, "scheduling")
    \/ /\ next_option_id <= MaxRespondedOptions
       /\ CreateDateOption("u1", 1, TRUE, TRUE)
    \/ \E s \in Sessions, u \in Users, d \in 1..MaxRespondedOptions,
          pri \in BOOLEAN :
          RespondBegin(s, u, 1, d, "yes", pri)
    \/ \E s \in Sessions : RespondCommit(s)

SpecRaceDates == Init /\ [][NextRaceDates]_vars

\* The category distribution of every catalog and every choice of favorites
\* among the catalog's activities.
InitNorm ==
    /\ event = <<>>
    /\ vote = {}
    /\ total_upvotes = [a \in Activities |-> 0]
    /\ date_option = <<>>
    /\ date_response = {}
    /\ event_participant = {}
    /\ room_member = {}
    /\ next_option_id = 1
    /\ last = Request("none", "none", NoEvent, NoActivity, NoOption, NoValue, 200)
    /\ inflight = [s \in Sessions |-> Idle]
    /\ \E cat \in [Categories -> 0..MaxCatalog] :
       \E fav \in [Members -> [Categories -> 0..MaxCatalog]] :
          /\ \A m \in Members, c \in Categories : fav[m][c] <= cat[c]
          /\ analysis = [NoAnalysis EXCEPT !.catalog = cat, !.favorites = fav]
    /\ TEAM_ANALYSIS_CACHE = <<>>
    /\ ai_response = NoResponse
    /\ scheduler = NotStarted

NextNorm == \E up \in [Categories -> BOOLEAN] : Normalize(up)

SpecNorm == InitNorm /\ [][NextNorm]_vars

\* Two requests creating date options on one event at the same time.
NextRaceLimit ==
    \/ \E r \in Rooms :
          /\ DOMAIN event = {}
          /\ CreateEvent("u1", r, "proposal", {"a1"}, {})
    \/ SelectActivity("u1", 1, "a1")
    \/ \E s \in Sessions, u \in Users, hs \in BOOLEAN, he \in BOOLEAN :
          CreateDateOptionBegin(s, u, 1, hs, he)
    \/ \E s \in Sessions : CreateDateOptionCommit(s)

SpecRaceLimit == Init /\ [][NextRaceLimit]_vars

\* The participant rows of two events and the operations gated on the
\* organizer flag.
NextOrganizer ==
    \/ \E u \in Users, r \in Rooms : CreateEvent(u, r, "proposal", {"a1"}, {})
    \/ \E u \in Users, e \in EventIds : GetEvent(u, e)
    \/ \E u \in Users, e \in EventIds : VoteOnActivity(u, e, "a1", "for")
    \/ \E u \in Users, e \in EventIds : UpdateEventPhase(u, e, "voting")
    \/ \E u \in Users, e \in EventIds : SelectActivity(u, e, "a1")
    \/ \E u \in Users, e \in EventIds : FinalizeDate(u, e, 1)

SpecOrganizer == Init /\ [][NextOrganizer]_vars

\* The scheduler loop, the config file being edited and the started
\* processes exiting while it runs.
NextScheduler ==
    \/ \E c \in Configs : EditConfig(c)
    \/ Tick
    \/ \E p \in Pids : ProcessExit(p)
    \/ SchedulerIteration

SpecScheduler == Init /\ [][NextScheduler]_vars

\* The team recommendations of a room whose catalog has at most one activity
\* per category, so that the favorite counts are the favorite sets; member m1
\* toggles the favorite of category c1 between the requests.
InitTeam ==
    /\ event = <<>>
    /\ vote = {}
    /\ total_upvotes = [a \in Activities |-> 0]
    /\ date_option = <<>>
    /\ date_response = {}
    /\ event_participant = {}
    /\ room_member = {}
    /\ next_option_id = 1
    /\ last = Request("none", "none", NoEvent, NoActivity, NoOption, NoValue, 200)
    /\ inflight = [s \in Sessions |-> Idle]
    /\ \E cat \in [Categories -> 0..1] :
       \E fav \in [Members -> [Categories -> 0..1]] :
          /\ \A m \in Members, c \in Categories : fav[m][c] <= cat[c]
          /\ analysis = [NoAnalysis EXCEPT !.catalog = cat, !.favorites = fav]
    /\ TEAM_ANALYSIS_CACHE = <<>>
    /\ ai_response = NoResponse
    /\ scheduler = NotStarted

NextTeam ==
    \/ \E u \in Users, r \in Rooms, outcome \in ExternalOutcomes,
          up \in [Categories -> BOOLEAN] :
          GetTeamRecommendations(u, r, outcome, up)
    \/ ToggleFavoriteActivity("m1", "c1")

SpecTeam == InitTeam /\ [][NextTeam]_vars

\* ------------------------------------------------------------------ claims

\* the request of the step is one of `ops` on an existing event
StepOf(ops) == last'.op \in ops /\ last'.event \in DOMAIN event

\* the caller of the step's request created its event
CallerIsCreator == last'.user = event[last'.event].created_by_user_id

\* the caller of the step's request is the creator of its event or has a
\* participant row flagged is_organizer
CallerIsOrganizer ==
    \/ CallerIsCreator
    \/ \E p \in event_participant :
          /\ p.event_id = last'.event
          /\ p.user_id = last'.user
          /\ p.is_organizer = TRUE

VotesOf(e) == {v \in vote : v.event_id = e}

\* C1: while an event is not in phase proposal, exclude_activity,
\* include_activity and remove_proposed_activity called by its creator answer
\* 400 and leave its proposed ids, its excluded ids and its votes unchanged.
C1_ProposalGate ==
    [][(/\ StepOf({"exclude_activity", "include_activity",
                   "remove_proposed_activity"})
        /\ CallerIsCreator
        /\ event[last'.event].phase # "proposal")
       => /\ last'.status = 400
          /\ event'[last'.event].proposed_activity_ids =
                 event[last'.event].proposed_activity_ids
          /\ event'[last'.event].excluded_activity_ids =
                 event[last'.event].excluded_activity_ids
          /\ {v \in vote' : v.event_id = last'.event} = VotesOf(last'.event)]_vars

\* the creator was refused the removal of a proposed activity that has votes
C1_Witness ==
    /\ last.op = "remove_proposed_activity"
    /\ last.status = 400
    /\ last.event \in DOMAIN event
    /\ last.user = event[last.event].created_by_user_id
    /\ event[last.event].phase = "voting"
    /\ last.activity \in event[last.event].proposed_activity_ids
    /\ \E v \in vote : v.event_id = last.event /\ v.activity_id = last.activity

\* C7: select_activity by the creator or an is_organizer participant sets
\* chosen_activity_id to the given activity and the phase to scheduling from
\* any phase; anyone else gets 403 and the event is unchanged; and while the
\* phase stays scheduling after a selection, exclude_activity by the creator
\* answers 400.
C7_SelectActivity ==
    [][/\ StepOf({"select_activity"}) =>
             IF CallerIsOrganizer
             THEN /\ event'[last'.event].chosen_activity_id = last'.activity
                  /\ event'[last'.event].phase = "scheduling"
             ELSE /\ last'.status = 403
                  /\ event' = event
       /\ (/\ StepOf({"exclude_activity"})
           /\ CallerIsCreator
           /\ event[last'.event].phase = "scheduling"
           /\ event[last'.event].chosen_activity_id # NoActivity)
          => /\ last'.status = 400
             /\ event' = event]_vars

\* the creator selected a1 and was then refused its exclusion
C7_Witness ==
    /\ last.op = "exclude_activity"
    /\ last.status = 400
    /\ last.event \in DOMAIN event
    /\ last.user = event[last.event].created_by_user_id
    /\ event[last.event].phase = "scheduling"
    /\ event[last.event].chosen_activity_id = "a1"
    /\ event[last.event].excluded_activity_ids = {}

\* C8: finalize_date by the creator or an is_organizer participant sets
\* final_date_option_id to the given id and the phase to info; a caller who is
\* neither gets 403 and phase and final_date_option_id stay as they were.
C8_FinalizeDate ==
    [][StepOf({"finalize_date"}) =>
          IF CallerIsOrganizer
          THEN /\ event'[last'.event].final_date_option_id = last'.option
               /\ event'[last'.event].phase = "info"
          ELSE /\ last'.status = 403
               /\ event'[last'.event].phase = event[last'.event].phase
               /\ event'[last'.event].final_date_option_id =
                      event[last'.event].final_date_option_id]_vars

\* a participant who is neither creator nor organizer was refused
C8_Witness ==
    /\ last.op = "finalize_date"
    /\ last.status = 403
    /\ last.event \in DOMAIN event
    /\ last.user # event[last.event].created_by_user_id
    /\ [event_id |-> last.event, user_id |-> last.user,
        is_organizer |-> FALSE, has_voted |-> TRUE] \in event_participant
    /\ last.option \in DOMAIN date_option
    /\ event[last.event].phase = "scheduling"
    /\ event[last.event].final_date_option_id = NoOption

\* C9: the phase of an event never moves to an earlier phase in the order
\* proposal < voting < scheduling < info.
C9_PhaseMonotonic ==
    [][\A e \in DOMAIN event :
          PhaseRank(event'[e].phase) >= PhaseRank(event[e].phase)]_vars

\* C10: update_event_phase by the creator or an is_organizer participant sets
\* the phase to the requested value from any phase and changes nothing else;
\* anyone else gets 403 and nothing changes.
C10_UpdateEventPhase ==
    [][StepOf({"update_event_phase"}) =>
          IF CallerIsOrganizer
          THEN /\ last'.status = 200
               /\ event' = [event EXCEPT ![last'.event].phase = last'.value]
               /\ UNCHANGED <<vote, total_upvotes, date_option, date_response,
                              event_participant, room_member>>
          ELSE /\ last'.status = 403
               /\ UNCHANGED tables]_vars

\* the creator moved a finalized event with votes, an exclusion and a date
\* response back to proposal
C10_Witness ==
    /\ last.op = "update_event_phase"
    /\ last.status = 200
    /\ last.value = "proposal"
    /\ last.event \in DOMAIN event
    /\ event[last.event].phase = "proposal"
    /\ event[last.event].chosen_activity_id # NoActivity
    /\ event[last.event].final_date_option_id # NoOption
    /\ event[last.event].excluded_activity_ids # {}
    /\ VotesOf(last.event) # {}
    /\ date_response # {}

\* C2: while the event named in the request is not in phase scheduling,
\* create_date_option and respond_to_date answer 400 and no date option or
\* date response is created or modified.
C2_SchedulingGate ==
    [][(/\ StepOf({"create_date_option", "respond_to_date"})
        /\ event[last'.event].phase # "scheduling")
       => /\ last'.status = 400
          /\ date_option' = date_option
          /\ date_response' = date_response]_vars

\* a user was refused a change of their own response once the event had left
\* scheduling
C2_Witness ==
    /\ last.op = "respond_to_date"
    /\ last.status = 400
    /\ last.event \in DOMAIN event
    /\ event[last.event].phase = "voting"
    /\ last.option \in DOMAIN date_option
    /\ date_option[last.option].event_id = last.event
    /\ \E r \in date_response :
          /\ r.date_option_id = last.option
          /\ r.user_id = last.user
          /\ r.response # last.value

\* C3: each user has at most one priority response among the date options of
\* any one event.
C3_OnePriorityPerUserEvent ==
    \A u \in Users, e \in DOMAIN event :
       Cardinality({r \in date_response :
                       /\ r.user_id = u
                       /\ r.is_priority
                       /\ r.date_option_id \in OptionsOf(e)}) <= 1

\* the user of the step's request holds a "for" vote on its activity in
\* another event
ForElsewhere ==
    \E v \in vote : /\ v.user_id = last'.user
                    /\ v.activity_id = last'.activity
                    /\ v.vote = "for"
                    /\ v.event_id # last'.event

\* C4: a vote by a user who holds a "for" vote on the same activity in another
\* event neither increments nor decrements the activity's counter; the counter
\* goes down, by one, only when a user's last "for" vote on the activity across
\* all events is withdrawn.
C4_CrossEventDedup ==
    [][/\ (StepOf({"vote_on_activity"}) /\ ForElsewhere)
          => total_upvotes' = total_upvotes
       /\ \A a \in Activities :
             total_upvotes'[a] < total_upvotes[a] =>
                /\ total_upvotes'[a] = total_upvotes[a] - 1
                /\ StepOf({"vote_on_activity"})
                /\ last'.activity = a
                /\ last'.value # "for"
                /\ [event_id |-> last'.event, activity_id |-> a,
                    user_id |-> last'.user, vote |-> "for"] \in vote
                /\ ~\E v \in vote' : /\ v.user_id = last'.user
                                     /\ v.activity_id = a
                                     /\ v.vote = "for"]_vars

\* a user changed a "for" vote to another value while their "for" vote in the
\* other event remains, and the counter still counts them
C4_Witness ==
    /\ last.op = "vote_on_activity"
    /\ last.before = "for"
    /\ last.value = "against"
    /\ \E v \in vote : /\ v.user_id = last.user
                       /\ v.activity_id = last.activity
                       /\ v.vote = "for"
                       /\ v.event_id # last.event
    /\ \A v \in vote : v.vote = "for" => v.user_id = last.user
    /\ total_upvotes[last.activity] = 1

SameKey(v, w) ==
    /\ v.event_id = w.event_id
    /\ v.activity_id = w.activity_id
    /\ v.user_id = w.user_id

\* C5: there is at most one vote row per (event, activity, user); a vote
\* leaves that row holding the value cast and the rows of the other keys as
\* they were; a vote with the value the row already holds changes neither the
\* vote rows nor the upvote counter.
C5_VoteUpsert ==
    [][/\ \A v \in vote', w \in vote' : SameKey(v, w) => v = w
       /\ (StepOf({"vote_on_activity"}) /\ last'.status = 200) =>
             LET cast == [event_id |-> last'.event, activity_id |-> last'.activity,
                          user_id |-> last'.user, vote |-> last'.value]
             IN /\ cast \in vote'
                /\ {v \in vote' : ~SameKey(v, cast)} = {v \in vote : ~SameKey(v, cast)}
                /\ cast \in vote => (vote' = vote /\ total_upvotes' = total_upvotes)]_vars

\* a "for" vote was cast a second time: one row, counted once
C5_Witness ==
    /\ last.op = "vote_on_activity"
    /\ last.status = 200
    /\ last.before = "for"
    /\ last.value = "for"
    /\ vote = {[event_id |-> last.event, activity_id |-> last.activity,
                user_id |-> last.user, vote |-> "for"]}
    /\ total_upvotes[last.activity] = 1

\* C6: in phase scheduling and with a valid time pair, create_date_option
\* succeeds exactly when the event holds fewer than 10 date options, adding
\* one; otherwise it answers 400 and adds nothing; no event ever holds more
\* than 10 date options.
C6_DateOptionLimit ==
    [][/\ \A e \in DOMAIN event' :
             Cardinality({d \in DOMAIN date_option' :
                             date_option'[d].event_id = e}) <= 10
       /\ (/\ StepOf({"create_date_option"})
           /\ event[last'.event].phase = "scheduling"
           /\ last'.value # "end")
          => /\ (last'.status = 200) <=> (Cardinality(OptionsOf(last'.event)) < 10)
             /\ last'.status = 200 =>
                   /\ last'.option \notin DOMAIN date_option
                   /\ date_option' = date_option @@
                          (last'.option :> [event_id |-> last'.event])
             /\ last'.status # 200 =>
                   /\ last'.status = 400
                   /\ date_option' = date_option]_vars

\* an 11th date option was refused after one of ten had been deleted and the
\* retry had succeeded
C6_Witness ==
    /\ last.op = "create_date_option"
    /\ last.status = 400
    /\ last.value = "start_end"
    /\ last.event \in DOMAIN event
    /\ event[last.event].phase = "scheduling"
    /\ Cardinality(OptionsOf(last.event)) = 10
    /\ 11 \in DOMAIN date_option

\* C11: every event produced by create_event starts in phase proposal,
\* whatever the creation request contains.
C11_CreatedInProposal ==
    [][(last'.op = "create_event" /\ last'.status = 200)
       => /\ last'.event \in DOMAIN event' \ DOMAIN event
          /\ event'[last'.event].phase = "proposal"]_vars

\* C12: outside phase scheduling a delete_date_option by the creator answers
\* 400 and the date option and its responses remain.
C12_DeleteOnlyInScheduling ==
    [][(/\ StepOf({"delete_date_option"})
        /\ CallerIsCreator
        /\ last'.option \in OptionsOf(last'.event)
        /\ event[last'.event].phase # "scheduling")
       => /\ last'.status = 400
          /\ date_option' = date_option
          /\ date_response' = date_response]_vars

\* C13: in every reachable state no activity id is in both
\* proposed_activity_ids and excluded_activity_ids of an event.
C13_ProposedExcludedDisjoint ==
    \A e \in DOMAIN event :
       event[e].proposed_activity_ids \cap event[e].excluded_activity_ids = {}

\* C14: after a successful get_event, vote_on_activity or respond_to_date by
\* user U on event E, U has exactly one event_participant row for E and is the
\* creator or a room_member of E's room.
C14_ParticipantAfterInteraction ==
    [][(/\ StepOf({"get_event", "vote_on_activity", "respond_to_date"})
        /\ last'.status = 200)
       => /\ Cardinality({p \in event_participant' :
                             /\ p.event_id = last'.event
                             /\ p.user_id = last'.user}) = 1
          /\ \/ room[event[last'.event].room_id].created_by_user_id = last'.user
             \/ [room_id |-> event[last'.event].room_id,
                 user_id |-> last'.user] \in room_member']_vars

\* C15: with two vote_on_activity requests of one user on one (event,
\* activity) handled at the same time, no vote request fails on a vote row
\* that is already there, there is one vote row per (event, activity, user),
\* and the upvote counter of an activity counts no more than the users
\* holding a "for" vote on it.
C15_ConcurrentVotes ==
    /\ (/\ last.op = "vote_on_activity"
        /\ ExistingVotes(last.user, last.event, last.activity) # {})
       => last.status = 200
    /\ \A v \in vote, w \in vote : SameKey(v, w) => v = w
    /\ \A a \in Activities :
          total_upvotes[a] <=
             Cardinality({v.user_id : v \in {x \in vote :
                                                x.activity_id = a /\ x.vote = "for"}})

\* C16: with get_event, vote_on_activity and join_room requests of one user
\* handled at the same time, no request fails on the uniqueness of a
\* room_member or event_participant row, and there is one row per
\* (room, user) and per (event, user).
C16_ConcurrentRegistration ==
    /\ last.op \in {"get_event", "join_room"} => last.status # 500
    /\ (/\ last.op = "vote_on_activity"
        /\ ExistingVotes(last.user, last.event, last.activity) = {})
       => last.status # 500
    /\ \A p \in event_participant, q \in event_participant :
          (p.event_id = q.event_id /\ p.user_id = q.user_id) => p = q
    /\ \A m \in room_member, n \in room_member :
          (m.room_id = n.room_id /\ m.user_id = n.user_id) => m = n

\* C17: with two respond_to_date requests of one user on two date options of
\* one event handled at the same time, no committed state has two priority
\* responses of the user on date options of the event.
C17_ConcurrentPriority ==
    \A r \in date_response, q \in date_response :
       (/\ r.user_id = q.user_id
        /\ r.is_priority
        /\ q.is_priority
        /\ date_option[r.date_option_id].event_id =
              date_option[q.date_option_id].event_id)
       => r = q

\* C18: whenever an event operation ends with an error status, the tables
\* are as they were before the call.
C18_ErrorMeansNoWrite ==
    [][(/\ last'.op \in {"get_event", "remove_proposed_activity",
                         "exclude_activity", "include_activity",
                         "update_event_phase", "vote_on_activity",
                         "create_date_option", "delete_date_option",
                         "respond_to_date", "select_activity", "finalize_date"}
        /\ last'.status >= 400)
       => UNCHANGED tables]_vars

\* C19: a room-scoped operation called by a user who is neither the room's
\* creator nor a room_member answers 404 and changes nothing.
C19_NonMemberNotFound ==
    [][(/\ last'.op \in {"get_room", "get_room_events", "create_event",
                         "get_team_recommendations"}
        /\ \A r \in Rooms :
              /\ room[r].created_by_user_id # last'.user
              /\ [room_id |-> r, user_id |-> last'.user] \notin room_member)
       => /\ last'.status = 404
          /\ UNCHANGED tables]_vars

\* C20: a non-empty normalized distribution sums to 100.0 within 0.05 per
\* listed category.
C20_PercentagesSumTo100 ==
    (analysis.done /\ analysis.normalized_distribution # <<>>) =>
       LET dist == analysis.normalized_distribution
           total == Sum(dist, DOMAIN dist)
           diff == IF total >= 1000 THEN total - 1000 ELSE 1000 - total
       IN 2 * diff <= Cardinality(DOMAIN dist)

\* three categories are listed and the rounded percentages miss 100.0
C20_Witness ==
    /\ analysis.done
    /\ Cardinality(DOMAIN analysis.normalized_distribution) = 3
    /\ Sum(analysis.normalized_distribution,
           DOMAIN analysis.normalized_distribution) # 1000

\* C21: of two listed categories with equal favorite counts, the one with
\* fewer catalog activities has the strictly higher normalized percentage.
C21_RarerCategoryHigher ==
    analysis.done =>
       \A A, B \in Categories :
          (/\ favorites_counts(analysis)[A] > 0
           /\ favorites_counts(analysis)[A] = favorites_counts(analysis)[B]
           /\ analysis.catalog[A] < analysis.catalog[B])
          => /\ A \in DOMAIN analysis.normalized_distribution
             /\ B \in DOMAIN analysis.normalized_distribution
             /\ analysis.normalized_distribution[A]
                  > analysis.normalized_distribution[B]

\* C22: on a cache miss the external step is called once; when it raises,
\* the answer is the fallback carrying the local normalized distribution if
\* there are favorites, and a 500 if there are none.
C22_FallbackOnFailure ==
    [][(/\ last'.op = "get_team_recommendations"
        /\ last'.status # 403
        /\ UNCHANGED analysis
        /\ \A r \in Rooms : Fingerprint(r, analysis) \notin DOMAIN TEAM_ANALYSIS_CACHE)
       => /\ ai_response'.calls = 1
          /\ ai_response'.external = "raised" =>
                IF total_favorites(analysis) > 0
                THEN /\ last'.status = 200
                     /\ ai_response'.result = "fallback"
                     /\ \E up \in [Categories -> BOOLEAN] :
                           ai_response'.categoryDistribution
                              = normalized_distribution(analysis, up)
                ELSE last'.status = 500]_vars

\* the external call raised with favorites present and the fallback carries
\* their distribution
C22_Witness ==
    /\ last.op = "get_team_recommendations"
    /\ ai_response.external = "raised"
    /\ ai_response.calls = 1
    /\ ai_response.result = "fallback"
    /\ ai_response.categoryDistribution # <<>>
    /\ total_favorites(analysis) > 0

\* C29: after a request answered with the fallback, the next request with
\* the same fingerprint calls the external step again.
C29_FallbackNotCached ==
    [][(/\ last'.op = "get_team_recommendations"
        /\ last'.status # 403
        /\ UNCHANGED analysis
        /\ ai_response.result = "fallback"
        /\ \A r \in Rooms : ai_response.fingerprint = Fingerprint(r, analysis))
       => ai_response'.calls = 1]_vars

\* C23: each activity's upvote counter is the number of users holding a
\* "for" vote on the activity, and is never negative.
C23_CounterMatchesVotes ==
    \A a \in Activities :
       /\ total_upvotes[a] >= 0
       /\ total_upvotes[a] =
             Cardinality({u \in Users :
                            \E v \in vote : /\ v.activity_id = a
                                            /\ v.user_id = u
                                            /\ v.vote = "for"})

\* C24: respond_to_date writes a date response only for a date option of the
\* event named in the request.
C24_ResponseOnOwnEvent ==
    [][(/\ StepOf({"respond_to_date"})
        /\ date_response' # date_response)
       => /\ last'.option \in DOMAIN date_option
          /\ date_option[last'.option].event_id = last'.event]_vars

\* C25: delete_date_option called on an event by its creator leaves the date
\* options and the date responses of every other event unchanged and removes
\* at most one date option, one of the event.
C25_DeleteFrame ==
    [][(StepOf({"delete_date_option"}) /\ CallerIsCreator)
       => /\ \A d \in DOMAIN date_option \ DOMAIN date_option' :
                d = last'.option /\ date_option[d].event_id = last'.event
          /\ \A r \in date_response :
                (/\ r.date_option_id \in DOMAIN date_option
                 /\ date_option[r.date_option_id].event_id # last'.event)
                => r \in date_response']_vars

\* C26: no event holds more than 10 date options, whatever the interleaving
\* of concurrent create_date_option requests.
C26_ConcurrentLimit ==
    \A e \in DOMAIN event :
       Cardinality({d \in DOMAIN date_option : date_option[d].event_id = e}) <= 10

\* C27: an event's final_date_option_id is unset or the id of an existing
\* date option of the event.
C27_FinalDateExists ==
    \A e \in DOMAIN event :
       \/ event[e].final_date_option_id = NoOption
       \/ /\ event[e].final_date_option_id \in DOMAIN date_option
          /\ date_option[event[e].final_date_option_id].event_id = e

\* C28: the only participant row of an event flagged is_organizer is the row
\* of the event's creator, and update_event_phase, select_activity and
\* finalize_date pass their organizer check for the creator only.
C28_OrganizerIsCreator ==
    [][/\ \A p \in event_participant' :
             p.is_organizer => p.user_id = event'[p.event_id].created_by_user_id
       /\ (/\ StepOf({"update_event_phase", "select_activity", "finalize_date"})
           /\ last'.status # 403)
          => last'.user = event[last'.event].created_by_user_id]_vars

\* a user who is not the creator voted in one event, holds an unflagged
\* participant row without a vote in another, and was refused an organizer
\* operation
C28_Witness ==
    /\ last.op \in {"update_event_phase", "select_activity", "finalize_date"}
    /\ last.status = 403
    /\ last.event \in DOMAIN event
    /\ \E p \in event_participant :
          /\ p.event_id = last.event
          /\ p.user_id = last.user
          /\ p.has_voted
          /\ ~p.is_organizer
    /\ \E e \in DOMAIN event, p \in event_participant :
          /\ p.event_id = e
          /\ p.user_id # event[e].created_by_user_id
          /\ ~HasParticipant({q \in event_participant : q.has_voted}, e, p.user_id)
          /\ e # last.event

\* C30: the scheduler never has two processes of the job running, the job
\* being configured with allow_overlap: false.
C30_NoOverlap ==
    Cardinality(scheduler.running) <= 1

====
